---- MODULE Spec2Model ----
(***************************************************************************)
(* Rule-based QC pipeline of the radar/met-station health copilot:         *)
(* QCToolbox evaluators, MonitorAgent, DiagnosticsAgent, ReporterAgent and *)
(* AgentOrchestrator (run_pipeline, run_stream, Station Memory).           *)
(*                                                                         *)
(* Conventions of the model                                                *)
(*  - a Python dict is a TLA+ function over its keys (a record);           *)
(*  - a value that may be None is an option: <<>> is None, <<v>> is v;     *)
(*  - a number is an integer count of tenths of its unit (20.0 C = 200),   *)
(*    so that the thresholds 100.5 and 0.5 are integers; Python prints it  *)
(*    as a float, which FmtFloat reproduces;                               *)
(*  - a Python str is a TLA+ string, searched and lower-cased character by *)
(*    character.                                                           *)
(***************************************************************************)
EXTENDS Integers, Sequences, FiniteSets, TLC

VARIABLES
  prev_records,  \* Station Memory of the orchestrator: station id -> record
  packets,       \* the packets the running run_stream call has consumed
  outputs,       \* the result bundles collected so far, in call order
  pc,            \* position of the caller
  call,          \* arguments of the latest run_pipeline call
  result,        \* what the latest run_pipeline call returned (or Raised)
  lastOf,        \* history: station id -> the temperature carried by the
                 \* latest packet streamed for that station (None if none)
  isolated,      \* per station, the Station Memory of an orchestrator that
                 \* is fed that station's packets only
  isolated_out   \* what that orchestrator returned for the latest packet

vars == <<prev_records, packets, outputs, pc, call, result, lastOf, isolated,
          isolated_out>>

(***************************************************************************)
(* Python values                                                           *)
(***************************************************************************)
None == <<>>

Some(v) == <<v>>

IsNone(o) == o = None

Val(o) == o[1]

EmptyDict == <<>>

\* dict.get(key) with the default None: the stored option, None when absent
Get(d, key) == IF key \in DOMAIN d THEN d[key] ELSE None

\* truth value of an optional dict: None and {} are falsy
Truthy(o) == o # None /\ DOMAIN Val(o) # {}

Abs(x) == IF x < 0 THEN -x ELSE x

(***************************************************************************)
(* Strings                                                                 *)
(***************************************************************************)
UpperAlphabet == "ABCDEFGHIJKLMNOPQRSTUVWXYZ"

LowerAlphabet == "abcdefghijklmnopqrstuvwxyz"

Digits == "0123456789"

CharAt(s, i) == SubSeq(s, i, i)

\* the upper-case letters and their lower-case counterparts
LowerMap ==
  [c \in {CharAt(UpperAlphabet, i) : i \in 1..Len(UpperAlphabet)} |->
     CharAt(LowerAlphabet,
            CHOOSE i \in 1..Len(UpperAlphabet) : CharAt(UpperAlphabet, i) = c)]

LowerChar(c) == IF c \in DOMAIN LowerMap THEN LowerMap[c] ELSE c

RECURSIVE Lower(_)
\* str.lower()
Lower(s) ==
  IF Len(s) = 0 THEN ""
  ELSE IF Len(s) = 1 THEN LowerChar(s)
  ELSE Lower(SubSeq(s, 1, Len(s) \div 2))
         \o Lower(SubSeq(s, Len(s) \div 2 + 1, Len(s)))

\* Python's `needle in haystack` on strings
Contains(needle, haystack) ==
  \E i \in 1..(Len(haystack) - Len(needle) + 1) :
     SubSeq(haystack, i, i + Len(needle) - 1) = needle

RECURSIVE Join(_, _)
\* sep.join(list)
Join(sep, list) ==
  IF Len(list) = 0 THEN ""
  ELSE IF Len(list) = 1 THEN list[1]
  ELSE list[1] \o sep \o Join(sep, Tail(list))

RECURSIVE NatStr(_)
NatStr(n) ==
  IF n < 10 THEN CharAt(Digits, n + 1)
  ELSE NatStr(n \div 10) \o CharAt(Digits, (n % 10) + 1)

\* f"{val}" of a float holding v tenths: 200 -> "20.0", -105 -> "-10.5"
FmtFloat(v) ==
  (IF v < 0 THEN "-" ELSE "") \o NatStr(Abs(v) \div 10) \o "."
     \o NatStr(Abs(v) % 10)

\* f"{diff:.2f}" of a float holding v tenths: 105 -> "10.50"
FmtFixed2(v) == FmtFloat(v) \o "0"

\* f"{x:.1f}" of the non-negative quotient num/den of tenths, rounded to the
\* nearest tenth, a tie going to the even neighbour
FmtFixed1(num, den) ==
  LET q == num \div den
      r == num % den
      rounded == IF 2 * r < den THEN q
                 ELSE IF 2 * r > den THEN q + 1
                 ELSE IF q % 2 = 0 THEN q ELSE q + 1
  IN FmtFloat(rounded)

(***************************************************************************)
(* QCToolbox                                                               *)
(***************************************************************************)
TempMin == -900
TempMax == 650
TempStepMax == 50
TempSpatialMax == 80
HumidityMin == 0
HumidityMax == 1005
PressureMin == 3000
PressureMax == 11000
PressureStepMax == 30
WindSpeedMax == 1000
WindDirMax == 3600
PrecipMax == 200
RainHumidityPrecipMin == 5
RainHumidityMax == 300
SnowTempMax == -50
SnrMin == 100
ReflectivityBiasMax == 30

_create_result == [passed |-> TRUE, anomalies |-> <<>>, metrics |-> EmptyDict]

\* a failing branch that appends its anomaly and forgets the flag
FailKeepsPassed(results, msg) ==
  [results EXCEPT !.anomalies = Append(@, msg)]

\* results["passed"] = False; results["anomalies"].append(msg)
Fail(results, msg) ==
  [results EXCEPT !.passed = FALSE, !.anomalies = Append(@, msg)]

\* results["metrics"][name] = value
SetMetric(results, name, value) ==
  [results EXCEPT !.metrics = (name :> value) @@ @]

\* the step check is attempted: `prev_record and prev_record.get("value") is
\* not None`, prev_record being None or the cached packet or sub-record
HasPrevValue(prev_record) ==
  Truthy(prev_record) /\ ~IsNone(Get(Val(prev_record), "value"))

RECURSIVE ValidNeighborsNullAsZero(_)
\* a filter that keeps a neighbor without a value as 0.0
ValidNeighborsNullAsZero(neighbor_data) ==
  IF Len(neighbor_data) = 0 THEN <<>>
  ELSE LET v == Get(Head(neighbor_data), "value")
       IN (IF IsNone(v) THEN <<0>> ELSE <<Val(v)>>)
             \o ValidNeighborsNullAsZero(Tail(neighbor_data))

RECURSIVE ValidNeighbors(_)
\* [n.get("value") for n in neighbor_data if n.get("value") is not None]
ValidNeighbors(neighbor_data) ==
  IF Len(neighbor_data) = 0 THEN <<>>
  ELSE LET v == Get(Head(neighbor_data), "value")
       IN (IF IsNone(v) THEN <<>> ELSE <<Val(v)>>)
             \o ValidNeighbors(Tail(neighbor_data))

RECURSIVE Sum(_)
Sum(seq) == IF Len(seq) = 0 THEN 0 ELSE Head(seq) + Sum(Tail(seq))

\* |val - mean(valid_neighbors)| as the exact quotient num/den of tenths
SpatialDeviation(val, valid_neighbors) ==
  [num |-> Abs(val * Len(valid_neighbors) - Sum(valid_neighbors)),
   den |-> Len(valid_neighbors)]

TempRangeCheck(results, val) ==
  IF ~(TempMin <= val /\ val <= TempMax)
  THEN Fail(results, "Physical Limit Failed: " \o FmtFloat(val)
                        \o "C is out of valid range [-90, 65].")
  ELSE results

TempStepCheck(results, val, prev_record) ==
  IF HasPrevValue(prev_record)
  THEN LET diff == Abs(val - Val(Val(prev_record)["value"]))
           r == SetMetric(results, "step_change", diff)
       IN IF diff > TempStepMax
          THEN Fail(r, "Step Check Failed: Sudden jump of "
                          \o FmtFixed2(diff) \o "C.")
          ELSE r
  ELSE results

TempSpatialCheck(results, val, neighbor_data) ==
  LET valid_neighbors == ValidNeighbors(neighbor_data)
  IN IF Len(valid_neighbors) > 0
     THEN LET deviation == SpatialDeviation(val, valid_neighbors)
              r == SetMetric(results, "spatial_deviation", deviation)
          IN IF deviation.num > TempSpatialMax * deviation.den
             THEN Fail(r, "Spatial Check Failed: Deviation "
                             \o FmtFixed1(deviation.num, deviation.den)
                             \o "C from neighbors.")
             ELSE r
     ELSE results

\* an evaluator that returns at its first failing check
TempStopsAtFirstFailure(station_data, neighbor_data, prev_record) ==
  LET val == Get(station_data, "value")
  IN IF IsNone(val)
     THEN Fail(_create_result, "Missing temperature value.")
     ELSE LET ranged == TempRangeCheck(_create_result, Val(val))
              stepped == TempStepCheck(ranged, Val(val), prev_record)
          IN IF ~ranged.passed THEN ranged
             ELSE IF ~stepped.passed THEN stepped
             ELSE TempSpatialCheck(stepped, Val(val), neighbor_data)

qc_temperature_data(station_data, neighbor_data, prev_record) ==
  LET val == Get(station_data, "value")
  IN IF IsNone(val)
     THEN Fail(_create_result, "Missing temperature value.")
     ELSE TempSpatialCheck(
            TempStepCheck(TempRangeCheck(_create_result, Val(val)),
                          Val(val), prev_record),
            Val(val), neighbor_data)

qc_humidity_data(station_data) ==
  LET val == Get(station_data, "value")
  IN IF IsNone(val)
     THEN Fail(_create_result, "Missing humidity value.")
     ELSE IF Val(val) < HumidityMin \/ Val(val) > HumidityMax
     THEN Fail(_create_result, "Physical Limit Failed: Humidity "
                  \o FmtFloat(Val(val)) \o "% is physically impossible.")
     ELSE _create_result

PressureRangeCheck(results, val) ==
  IF ~(PressureMin <= val /\ val <= PressureMax)
  THEN Fail(results, "Physical Limit Failed: Pressure " \o FmtFloat(val)
                        \o "hPa out of meteorological range.")
  ELSE results

PressureStepCheck(results, val, prev_record) ==
  IF HasPrevValue(prev_record)
  THEN LET diff == Abs(val - Val(Val(prev_record)["value"]))
       IN IF diff > PressureStepMax
          THEN Fail(results, "Step Check Failed: Pressure jump "
                                \o FmtFixed2(diff) \o "hPa.")
          ELSE results
  ELSE results

qc_pressure_data(station_data, prev_record) ==
  LET val == Get(station_data, "value")
  IN IF IsNone(val)
     THEN Fail(_create_result, "Missing pressure value.")
     ELSE PressureStepCheck(PressureRangeCheck(_create_result, Val(val)),
                            Val(val), prev_record)

WindSpeedCheck(results, speed) ==
  IF speed < 0
  THEN Fail(results, "Physical Limit Failed: Negative wind speed "
                        \o FmtFloat(speed) \o ".")
  ELSE IF speed > WindSpeedMax
  THEN Fail(results, "Physical Limit Failed: Suspicious high wind "
                        \o FmtFloat(speed) \o "m/s.")
  ELSE results

WindDirectionCheck(results, direction) ==
  IF ~(0 <= direction /\ direction <= WindDirMax)
  THEN Fail(results, "Physical Limit Failed: Invalid direction "
                        \o FmtFloat(direction) \o ".")
  ELSE results

WindCalmCheck(results, speed, direction) ==
  IF speed = 0 /\ direction # 0
  THEN SetMetric(results, "warning",
                 "Calm wind with non-zero direction detected.")
  ELSE results

qc_wind_data(station_data) ==
  LET speed == Get(station_data, "speed")
      direction == Get(station_data, "direction")
  IN IF IsNone(speed) \/ IsNone(direction)
     THEN Fail(_create_result, "Missing wind speed or direction.")
     ELSE WindCalmCheck(
            WindDirectionCheck(WindSpeedCheck(_create_result, Val(speed)),
                               Val(direction)),
            Val(speed), Val(direction))

PrecipNegativeCheck(results, val) ==
  IF val < 0
  THEN Fail(results, "Physical Limit Failed: Negative precipitation.")
  ELSE results

PrecipRateCheck(results, val) ==
  IF val > PrecipMax
  THEN Fail(results, "Physical Limit Failed: Suspicious rain rate "
                        \o FmtFloat(val) \o "mm/min.")
  ELSE results

qc_precipitation_data(station_data) ==
  LET val == Get(station_data, "value")
  IN IF IsNone(val)
     THEN Fail(_create_result, "Missing precipitation value.")
     ELSE PrecipRateCheck(PrecipNegativeCheck(_create_result, Val(val)),
                          Val(val))

RadarSnrCheck(results, snr) ==
  IF snr < SnrMin
  THEN Fail(results, "Low SNR Detected: " \o FmtFloat(snr) \o " dB.")
  ELSE results

RadarBiasCheck(results, reflectivity_bias) ==
  IF ~IsNone(reflectivity_bias)
  THEN LET r == SetMetric(results, "reflectivity_bias",
                          Val(reflectivity_bias))
       IN IF Abs(Val(reflectivity_bias)) > ReflectivityBiasMax
          THEN Fail(r, "Reflectivity bias high: "
                          \o FmtFloat(Val(reflectivity_bias)) \o " dBZ.")
          ELSE r
  ELSE results

\* an evaluator that goes on to the bias check after a missing SNR
RadarMissingSnrContinues(log_data) ==
  LET snr == Get(log_data, "snr")
  IN IF IsNone(snr)
     THEN RadarBiasCheck(Fail(_create_result, "Missing radar SNR."),
                         Get(log_data, "reflectivity_bias"))
     ELSE RadarBiasCheck(RadarSnrCheck(_create_result, Val(snr)),
                         Get(log_data, "reflectivity_bias"))

qc_radar_data(log_data) ==
  LET snr == Get(log_data, "snr")
  IN IF IsNone(snr)
     THEN Fail(_create_result, "Missing radar SNR.")
     ELSE RadarBiasCheck(RadarSnrCheck(_create_result, Val(snr)),
                         Get(log_data, "reflectivity_bias"))

\* combined_data.get(key, {}).get(field): a key that is present but None makes
\* Python evaluate None.get(field), which raises AttributeError
SubFieldRaises(combined_data, key) ==
  key \in DOMAIN combined_data /\ IsNone(combined_data[key])

SubField(combined_data, key, field) ==
  IF key \in DOMAIN combined_data
  THEN Get(Val(combined_data[key]), field)
  ELSE None

ConsistencyRaises(combined_data) ==
  \E key \in {"temperature", "precipitation", "humidity", "wind"} :
     SubFieldRaises(combined_data, key)

ConsistencyRule1(anomalies, precip, humidity) ==
  IF ~IsNone(precip) /\ Val(precip) > RainHumidityPrecipMin
     /\ ~IsNone(humidity) /\ Val(humidity) < RainHumidityMax
  THEN Append(anomalies,
              "Physics Mismatch: Raining (" \o FmtFloat(Val(precip))
                \o "mm) but Humidity is low (" \o FmtFloat(Val(humidity))
                \o "%). Suspect Tipping Bucket error.")
  ELSE anomalies

\* a second rule that is skipped once the first has fired
ConsistencyRule2Exclusive(anomalies, precip, temp) ==
  IF Len(anomalies) = 0 /\ ~IsNone(precip) /\ Val(precip) > 0
     /\ ~IsNone(temp) /\ Val(temp) < SnowTempMax
  THEN Append(anomalies,
              "Physics Warning: Precipitation detected at "
                \o FmtFloat(Val(temp))
                \o "C. Ensure sensor heating is active.")
  ELSE anomalies

ConsistencyRule2(anomalies, precip, temp) ==
  IF ~IsNone(precip) /\ Val(precip) > 0
     /\ ~IsNone(temp) /\ Val(temp) < SnowTempMax
  THEN Append(anomalies,
              "Physics Warning: Precipitation detected at "
                \o FmtFloat(Val(temp))
                \o "C. Ensure sensor heating is active.")
  ELSE anomalies

\* defined for the packets on which ConsistencyRaises is false
check_internal_consistency(combined_data) ==
  LET temp == SubField(combined_data, "temperature", "value")
      precip == SubField(combined_data, "precipitation", "value")
      humidity == SubField(combined_data, "humidity", "value")
  IN ConsistencyRule2(ConsistencyRule1(<<>>, precip, humidity), precip, temp)

(***************************************************************************)
(* MonitorAgent                                                            *)
(* all_results is an insertion-ordered dict: a sequence of entries         *)
(* [name, verdict] in insertion order.                                     *)
(***************************************************************************)
Entry(name, verdict) == [name |-> name, verdict |-> verdict]

\* a composite run that evaluates every sub-record whose key is present
SubResultIfPresent(packet, name, verdict) ==
  IF name \in DOMAIN packet THEN <<Entry(name, verdict)>> ELSE <<>>

\* results[name] = evaluator(sub-record) when `if sub:` holds
SubResult(packet, name, verdict) ==
  IF Truthy(Get(packet, name)) THEN <<Entry(name, verdict)>> ELSE <<>>

ConsistencyResult(packet) ==
  LET consistency == check_internal_consistency(packet)
  IN IF Len(consistency) > 0
     THEN <<Entry("internal_consistency",
                  [passed |-> FALSE, anomalies |-> consistency,
                   metrics |-> EmptyDict])>>
     ELSE <<>>

\* the sub-record handed to an evaluator; only used under Truthy
Sub(packet, name) == Val(packet[name])

_run_composite(packet, neighbor_data, prev_record) ==
  SubResult(packet, "temperature",
            qc_temperature_data(Sub(packet, "temperature"), neighbor_data,
                                Get(prev_record, "temperature")))
  \o SubResult(packet, "humidity", qc_humidity_data(Sub(packet, "humidity")))
  \o SubResult(packet, "pressure",
               qc_pressure_data(Sub(packet, "pressure"),
                                Get(prev_record, "pressure")))
  \o SubResult(packet, "wind", qc_wind_data(Sub(packet, "wind")))
  \o SubResult(packet, "precipitation",
               qc_precipitation_data(Sub(packet, "precipitation")))
  \o SubResult(packet, "radar", qc_radar_data(Sub(packet, "radar")))
  \o ConsistencyResult(packet)

RECURSIVE AllPassed(_)
\* all(r.get("passed", True) for r in all_results.values())
AllPassed(all_results) ==
  IF Len(all_results) = 0 THEN TRUE
  ELSE Head(all_results).verdict.passed /\ AllPassed(Tail(all_results))

RECURSIVE Prefixed(_, _)
\* f"[{name}] {anomaly}" for each anomaly of one sub-verdict
Prefixed(name, anomalies) ==
  IF Len(anomalies) = 0 THEN <<>>
  ELSE <<"[" \o name \o "] " \o Head(anomalies)>>
          \o Prefixed(name, Tail(anomalies))

RECURSIVE CollapsedAnomalies(_)
CollapsedAnomalies(all_results) ==
  IF Len(all_results) = 0 THEN <<>>
  ELSE Prefixed(Head(all_results).name, Head(all_results).verdict.anomalies)
          \o CollapsedAnomalies(Tail(all_results))

RECURSIVE CollapsedMetrics(_)
CollapsedMetrics(all_results) ==
  IF Len(all_results) = 0 THEN EmptyDict
  ELSE (Head(all_results).name :> Head(all_results).verdict.metrics)
          @@ CollapsedMetrics(Tail(all_results))

\* a collapse that takes passed from the first sub-verdict alone
CollapseFirstOnly(all_results) ==
  [passed |-> Len(all_results) = 0 \/ all_results[1].verdict.passed,
   anomalies |-> CollapsedAnomalies(all_results),
   metrics |-> CollapsedMetrics(all_results)]

_collapse_results(all_results) ==
  [passed |-> AllPassed(all_results),
   anomalies |-> CollapsedAnomalies(all_results),
   metrics |-> CollapsedMetrics(all_results)]

\* str(data_packet.get("type")) inside an f-string
TypeText(data_type) == IF IsNone(data_type) THEN "None" ELSE Val(data_type)

RECURSIVE Counts(_)
Counts(all_results) ==
  IF Len(all_results) = 0 THEN <<>>
  ELSE <<Head(all_results).name \o ":"
           \o (IF Head(all_results).verdict.passed THEN "OK" ELSE "X")>>
          \o Counts(Tail(all_results))

_format_summary(data_packet, qc_result, all_results) ==
  LET status == IF qc_result.passed THEN "HEALTHY" ELSE "ANOMALY"
      detail == IF Len(qc_result.anomalies) > 0
                THEN Join("; ", qc_result.anomalies)
                ELSE "All QC checks passed."
  IN IF Len(all_results) > 1
     THEN status \o " | composite | " \o detail \o " | ["
            \o Join(", ", Counts(all_results)) \o "]"
     ELSE status \o " | " \o TypeText(Get(data_packet, "type")) \o " | "
            \o detail

SingleTypes ==
  {"temperature", "radar", "humidity", "pressure", "precipitation", "wind"}

\* the evaluator MonitorAgent.run dispatches a single-variable packet to
Dispatch(data_type, data_packet, neighbor_data, prev_record) ==
  CASE data_type = "temperature" ->
         qc_temperature_data(data_packet, neighbor_data,
                             Get(prev_record, "temperature"))
    [] data_type = "radar" -> qc_radar_data(data_packet)
    [] data_type = "humidity" -> qc_humidity_data(data_packet)
    [] data_type = "pressure" ->
         qc_pressure_data(data_packet, Get(prev_record, "pressure"))
    [] data_type = "precipitation" -> qc_precipitation_data(data_packet)
    [] data_type = "wind" -> qc_wind_data(data_packet)

UnsupportedResult(data_type) ==
  [passed |-> FALSE,
   anomalies |-> <<"Unsupported data type: " \o TypeText(data_type)>>,
   metrics |-> EmptyDict]

\* data_type or "unknown"
UnsupportedName(data_type) ==
  IF IsNone(data_type) \/ Val(data_type) = "" THEN "unknown"
  ELSE Val(data_type)

\* prev_record = prev_record or {}
OrEmpty(prev_record) ==
  IF IsNone(prev_record) THEN EmptyDict ELSE Val(prev_record)

\* neighbor_data = neighbor_data or []
OrEmptyList(neighbor_data) ==
  IF IsNone(neighbor_data) THEN <<>> ELSE Val(neighbor_data)

MonitorRaises(data_packet) ==
  Get(data_packet, "type") = Some("composite")
    /\ ConsistencyRaises(data_packet)

MonitorAllResults(data_packet, neighbor_data, prev_record) ==
  LET data_type == Get(data_packet, "type")
  IN IF ~IsNone(data_type) /\ Val(data_type) \in SingleTypes
     THEN <<Entry(Val(data_type),
                  Dispatch(Val(data_type), data_packet,
                           OrEmptyList(neighbor_data), OrEmpty(prev_record)))>>
     ELSE IF data_type = Some("composite")
     THEN _run_composite(data_packet, OrEmptyList(neighbor_data),
                         OrEmpty(prev_record))
     ELSE <<Entry(UnsupportedName(data_type), UnsupportedResult(data_type))>>

MonitorVerdict(data_packet, all_results) ==
  IF Get(data_packet, "type") = Some("composite")
  THEN _collapse_results(all_results)
  ELSE all_results[1].verdict

\* MonitorAgent.run, for the packets on which MonitorRaises is false
MonitorRun(data_packet, neighbor_data, prev_record) ==
  LET all_results == MonitorAllResults(data_packet, neighbor_data, prev_record)
      qc_result == MonitorVerdict(data_packet, all_results)
  IN [summary |-> _format_summary(data_packet, qc_result, all_results),
      qc_result |-> qc_result,
      all_results |-> all_results]

(***************************************************************************)
(* DiagnosticsAgent                                                        *)
(***************************************************************************)
StormTokens == {"storm", "convective", "heavy rain", "thunder", "squall"}

\* a keyword test that forgets to lower-case the metadata
IsCalmCaseSensitive(metadata) ==
  ~\E token \in StormTokens : Contains(token, metadata)

_is_calm_weather(metadata) ==
  ~\E token \in StormTokens : Contains(token, Lower(metadata))

_build_diag(conclusion, confidence, rationale) ==
  [conclusion |-> conclusion, confidence |-> confidence,
   rationale |-> rationale]

\* the branch of the if/elif chain one anomaly takes: "none" when it falls
\* through every test
MatchedRule(anomaly, metadata) ==
  LET lowered == Lower(anomaly)
  IN IF Contains("spatial check failed", lowered)
     THEN (IF _is_calm_weather(metadata) THEN "spatial_calm"
           ELSE "spatial_storm")
     ELSE IF Contains("limit check failed", lowered) THEN "limit"
     ELSE IF Contains("low snr", lowered) THEN "low_snr"
     ELSE IF Contains("reflectivity bias", lowered) THEN "reflectivity"
     ELSE IF Contains("pressure jump", lowered) THEN "pressure_jump"
     ELSE IF Contains("rain rate", lowered)
             \/ Contains("precipitation", lowered) THEN "precipitation"
     ELSE IF Contains("wind", lowered) THEN "wind"
     ELSE IF Contains("internal consistency", lowered)
             \/ Contains("physics mismatch", lowered) THEN "consistency"
     ELSE "none"

\* what each branch assigns: text, confidence and the rationale fragment
RuleTable ==
  [spatial_calm |->
     [text |-> "Sensor warm bias or shielding issue.",
      confidence |-> "high",
      rationale |-> "High deviation with calm weather context."],
   spatial_storm |->
     [text |-> "Possible localized weather; monitor closely.",
      confidence |-> "medium",
      rationale |-> "Spatial deviation but convective keywords present."],
   limit |->
     [text |-> "Sensor failure suspected.",
      confidence |-> "high",
      rationale |-> "Value outside physical bounds."],
   low_snr |->
     [text |-> "Radar SNR drop; check attenuator or blockage.",
      confidence |-> "medium",
      rationale |-> "SNR below operational threshold."],
   reflectivity |->
     [text |-> "Radar calibration drift.",
      confidence |-> "medium",
      rationale |-> "Bias exceeds tolerance."],
   pressure_jump |->
     [text |-> "Pressure sensor or barometer offset; verify met mast and plumbing.",
      confidence |-> "medium",
      rationale |-> "Rapid pressure change violates synoptic continuity."],
   precipitation |->
     [text |-> "Rain gauge mechanical issue (double tipping/overflow) or blockage.",
      confidence |-> "medium",
      rationale |-> "Precipitation magnitude beyond mechanical tolerance."],
   wind |->
     [text |-> "Anemometer or vane fault; inspect bearings/cabling.",
      confidence |-> "medium",
      rationale |-> "Wind vector outside physical range."],
   consistency |->
     [text |-> "Cross-variable inconsistency; likely sensor drift or heating failure.",
      confidence |-> "medium",
      rationale |-> "Physics relationship violated across variables."]]

\* a loop body in which the first matching anomaly keeps the conclusion
DiagnoseStepFirstWins(acc, anomaly, metadata) ==
  LET rule == MatchedRule(anomaly, metadata)
  IN IF rule = "none" THEN acc
     ELSE IF Len(acc.rationale) > 0
     THEN [acc EXCEPT !.rationale = Append(@, RuleTable[rule].rationale)]
     ELSE [text |-> RuleTable[rule].text,
           confidence |-> RuleTable[rule].confidence,
           rationale |-> Append(acc.rationale, RuleTable[rule].rationale)]

\* one iteration of `for anomaly in anomalies`
DiagnoseStep(acc, anomaly, metadata) ==
  LET rule == MatchedRule(anomaly, metadata)
  IN IF rule = "none" THEN acc
     ELSE [text |-> RuleTable[rule].text,
           confidence |-> RuleTable[rule].confidence,
           rationale |-> Append(acc.rationale, RuleTable[rule].rationale)]

RECURSIVE DiagnoseLoop(_, _, _)
DiagnoseLoop(acc, anomalies, metadata) ==
  IF Len(anomalies) = 0 THEN acc
  ELSE DiagnoseLoop(DiagnoseStep(acc, Head(anomalies), metadata),
                    Tail(anomalies), metadata)

diagnose(monitor_output, metadata) ==
  IF monitor_output.qc_result.passed
  THEN _build_diag("No issue detected.", "low", "All QC checks passed.")
  ELSE LET final == DiagnoseLoop([text |-> "Unknown anomaly.",
                                  confidence |-> "medium",
                                  rationale |-> <<>>],
                                 monitor_output.qc_result.anomalies, metadata)
           rationale == IF Len(final.rationale) = 0
                        THEN <<"No rule matched; manual review recommended.">>
                        ELSE final.rationale
       IN _build_diag(final.text, final.confidence, Join(" ", rationale))

(***************************************************************************)
(* ReporterAgent                                                           *)
(***************************************************************************)
\* a risk decision whose fall-through level is GREEN
RiskLevelDefaultGreen(monitor_output, diagnosis) ==
  IF monitor_output.qc_result.passed THEN "GREEN"
  ELSE IF Contains("Limit Check", Join(" ", monitor_output.qc_result.anomalies))
  THEN "RED"
  ELSE IF diagnosis.confidence = "high" THEN "YELLOW"
  ELSE "GREEN"

_risk_level(monitor_output, diagnosis) ==
  IF monitor_output.qc_result.passed THEN "GREEN"
  ELSE IF Contains("Limit Check", Join(" ", monitor_output.qc_result.anomalies))
  THEN "RED"
  ELSE IF diagnosis.confidence = "high" THEN "YELLOW"
  ELSE "BLUE"

\* [a.lower() for a in anomalies]
LoweredAll(anomalies) == [i \in 1..Len(anomalies) |-> Lower(anomalies[i])]

\* any(needle in a.lower() for a in anomalies), on the lowered anomalies
AnyContains(needle, lowered) ==
  \E i \in 1..Len(lowered) : Contains(needle, lowered[i])

_tasks(anomalies, data_packet) ==
  LET lowered == LoweredAll(anomalies)
      tasks ==
        (IF AnyContains("spatial check failed", lowered)
         THEN <<"Inspect radiation shield ventilation and sensor placement.",
                "Perform 3-point calibration against handheld reference.">>
         ELSE <<>>)
        \o (IF AnyContains("limit check failed", lowered)
            THEN <<"Power-cycle sensor and verify firmware health.">>
            ELSE <<>>)
        \o (IF Get(data_packet, "type") = Some("radar")
            THEN <<"Check radome cleanliness and receiver attenuation.">>
            ELSE <<>>)
        \o (IF AnyContains("pressure", lowered)
            THEN <<"Check pressure port desiccant and zero offset.">>
            ELSE <<>>)
        \o (IF AnyContains("precipitation", lowered)
               \/ AnyContains("rain", lowered)
            THEN <<"Inspect tipping bucket for clogging or double tipping.">>
            ELSE <<>>)
        \o (IF AnyContains("wind", lowered)
            THEN <<"Inspect anemometer bearings and vane alignment.">>
            ELSE <<>>)
        \o (IF AnyContains("internal consistency", lowered)
               \/ AnyContains("physics mismatch", lowered)
            THEN <<"Cross-check heating, shielding, and colocated instruments.">>
            ELSE <<>>)
  IN IF Len(tasks) = 0 THEN <<"Monitor feed; no immediate action.">>
     ELSE tasks

RECURSIVE Bulleted(_)
Bulleted(tasks) ==
  IF Len(tasks) = 0 THEN <<>>
  ELSE <<"- " \o Head(tasks)>> \o Bulleted(Tail(tasks))

generate_ticket(data_packet, monitor_output, diagnosis) ==
  LET qc_passed == monitor_output.qc_result.passed
      risk == _risk_level(monitor_output, diagnosis)
      tasks == _tasks(monitor_output.qc_result.anomalies, data_packet)
  IN Join("\n",
          <<"**MAINTENANCE TICKET**",
            "Risk: " \o risk,
            "Data Type: " \o TypeText(Get(data_packet, "type")),
            "Monitor: " \o monitor_output.summary,
            "Diagnosis: " \o diagnosis.conclusion \o " (confidence: "
               \o diagnosis.confidence \o ")",
            "Rationale: " \o diagnosis.rationale,
            "Actions:">>
          \o Bulleted(tasks)
          \o <<IF qc_passed THEN "Status: CLOSE" ELSE "Status: INVESTIGATE">>)

(***************************************************************************)
(* AgentOrchestrator                                                       *)
(***************************************************************************)
\* what a call leaves when an exception propagates out of it
Raised == [exception |-> "AttributeError"]

Returned(r) == "exception" \notin DOMAIN r

run_pipeline(data_packet, neighbor_data, metadata, prev_record) ==
  IF MonitorRaises(data_packet) THEN Raised
  ELSE LET monitor_output == MonitorRun(data_packet, neighbor_data, prev_record)
           diagnosis == diagnose(monitor_output, metadata)
       IN [monitor_output |-> monitor_output,
           diagnosis |-> diagnosis,
           report |-> generate_ticket(data_packet, monitor_output, diagnosis)]

\* packet.get("station_id", "unknown")
StationOf(packet) ==
  IF "station_id" \in DOMAIN packet THEN packet["station_id"]
  ELSE Some("unknown")

\* a lookup that falls back on the record of some other station
PrevRecordOfAnyStation(memory, station_id) ==
  IF station_id \in DOMAIN memory THEN memory[station_id]
  ELSE IF DOMAIN memory # {} THEN memory[CHOOSE s \in DOMAIN memory : TRUE]
  ELSE EmptyDict

\* self.prev_records.get(station_id, {})
PrevRecordOf(memory, station_id) ==
  IF station_id \in DOMAIN memory THEN memory[station_id] ELSE EmptyDict

\* a record builder that caches single-variable packets only
NewRecordSingleOnly(packet) ==
  LET data_type == Get(packet, "type")
  IN IF data_type = Some("temperature") THEN [temperature |-> Some(packet)]
     ELSE IF data_type = Some("pressure") THEN [pressure |-> Some(packet)]
     ELSE EmptyDict

\* the record _update_prev_records builds from the packet
NewRecord(packet) ==
  LET data_type == Get(packet, "type")
  IN IF data_type = Some("temperature") THEN [temperature |-> Some(packet)]
     ELSE IF data_type = Some("pressure") THEN [pressure |-> Some(packet)]
     ELSE IF data_type = Some("composite")
     THEN [key \in {k \in {"temperature", "pressure"} :
                      Truthy(Get(packet, k))} |-> packet[key]]
     ELSE EmptyDict

\* an update that stores the record even when it is empty
UpdateStoresEmptyRecord(memory, station_id, packet) ==
  [s \in DOMAIN memory \cup {station_id} |->
     IF s = station_id THEN NewRecord(packet) ELSE memory[s]]

\* if record: self.prev_records[station_id] = record
_update_prev_records(memory, station_id, packet) ==
  LET record == NewRecord(packet)
  IN IF DOMAIN record # {}
     THEN [s \in DOMAIN memory \cup {station_id} |->
             IF s = station_id THEN record ELSE memory[s]]
     ELSE memory

\* a run_pipeline that caches its packet in Station Memory by itself
PipelineMemoryCaching(memory, data_packet) ==
  _update_prev_records(memory, StationOf(data_packet), data_packet)

\* run_pipeline keeps no state: the Station Memory after a call
PipelineMemory(memory, data_packet) == memory

\* the callbacks of run_csv_stream_demo: p.get("neighbors", []) and
\* p.get("metadata", "")
neighbor_lookup(packet) ==
  IF "neighbors" \in DOMAIN packet THEN packet["neighbors"] ELSE Some(<<>>)

metadata_lookup(packet) ==
  IF "metadata" \in DOMAIN packet THEN Val(packet["metadata"]) ELSE ""

\* a loop body that caches the packet before it calls run_pipeline
StreamCallAfterUpdate(memory, packet) ==
  [data_packet |-> packet,
   neighbor_data |-> neighbor_lookup(packet),
   metadata |-> metadata_lookup(packet),
   prev_record |->
     Some(PrevRecordOf(_update_prev_records(memory, StationOf(packet), packet),
                       StationOf(packet)))]

\* the arguments run_stream passes to run_pipeline for one packet
StreamCall(memory, packet) ==
  [data_packet |-> packet,
   neighbor_data |-> neighbor_lookup(packet),
   metadata |-> metadata_lookup(packet),
   prev_record |-> Some(PrevRecordOf(memory, StationOf(packet)))]

Apply(c) ==
  run_pipeline(c.data_packet, c.neighbor_data, c.metadata, c.prev_record)

\* a loop that caches a packet only when its verdict passed
MemoryAfterPassedOnly(memory, packet, r) ==
  IF Returned(r) /\ r.monitor_output.qc_result.passed
  THEN _update_prev_records(memory, StationOf(packet), packet)
  ELSE memory

\* the Station Memory after one iteration of run_stream's loop whose
\* run_pipeline call ended with r: an exception leaves the loop before
\* _update_prev_records
MemoryAfter(memory, packet, r) ==
  IF Returned(r) THEN _update_prev_records(memory, StationOf(packet), packet)
  ELSE memory

(***************************************************************************)
(* Inputs                                                                  *)
(***************************************************************************)
Field(key, value) == key :> Some(value)

Typed(type, fields) == Field("type", type) @@ fields

At(station, packet) == Field("station_id", station) @@ packet

Reading(v) == [value |-> Some(v)]

NullReading == [value |-> None]

\* the longest iterable one run_stream call is given
MaxStream == 3

TestNeighbors == <<Reading(200)>>

\* the packets a stream is drawn from: the two packets of
\* test_stream_uses_prev_record_for_step_check among them
StreamPackets ==
  { At("S1", Typed("temperature", Reading(200))),
    At("S1", Typed("temperature", Reading(305))),
    At("S1", Typed("pressure", Reading(9000))),
    At("S1", Typed("composite",
                   Field("temperature", Reading(200))
                     @@ Field("pressure", Reading(9000))
                     @@ Field("neighbors", TestNeighbors))),
    At("S1", Typed("composite",
                   Field("temperature", Reading(305))
                     @@ Field("pressure", Reading(9090))
                     @@ Field("neighbors", TestNeighbors))),
    At("S1", Typed("composite", Field("temperature", Reading(305)))),
    At("S1", Typed("composite", EmptyDict)),
    At("S1", Typed("composite",
                   Field("temperature", EmptyDict)
                     @@ Field("pressure", EmptyDict))),
    At("S1", Typed("sonar", Reading(10))),
    At("S1", Typed("composite", "temperature" :> None)),
    Typed("temperature", Reading(305)) }

\* the temperature a packet carries: its value when it is a temperature
\* packet, its temperature sub-record's value when it is a composite
TempCarried(packet) ==
  IF Get(packet, "type") = Some("temperature") THEN Get(packet, "value")
  ELSE IF Get(packet, "type") = Some("composite")
          /\ Truthy(Get(packet, "temperature"))
  THEN Get(Val(packet["temperature"]), "value")
  ELSE None

NoCall == EmptyDict

NoResult == EmptyDict

(***************************************************************************)
(* run_stream on one orchestrator, call after call                         *)
(***************************************************************************)
InitStream ==
  /\ prev_records = EmptyDict
  /\ packets = <<>>
  /\ outputs = <<>>
  /\ pc = "loop"
  /\ call = NoCall
  /\ result = NoResult
  /\ lastOf = EmptyDict
  /\ isolated = EmptyDict
  /\ isolated_out = NoResult

\* one iteration of `for packet in packets`
RunStreamStep(packet) ==
  LET station_id == StationOf(packet)
      alone_memory == [s \in DOMAIN isolated \cap {station_id} |-> isolated[s]]
  IN /\ pc = "loop"
     /\ Len(packets) < MaxStream
     /\ packets' = Append(packets, packet)
     /\ call' = StreamCall(prev_records, packet)
     /\ result' = Apply(call')
     /\ outputs' = IF Returned(result') THEN Append(outputs, result')
                   ELSE outputs
     /\ pc' = IF Returned(result') THEN "loop" ELSE "raised"
     /\ prev_records' = MemoryAfter(prev_records, packet, result')
     /\ lastOf' = [s \in DOMAIN lastOf \cup {station_id} |->
                     IF s = station_id THEN TempCarried(packet) ELSE lastOf[s]]
     /\ isolated_out' = Apply(StreamCall(alone_memory, packet))
     /\ isolated' =
          LET after == MemoryAfter(alone_memory, packet, isolated_out')
          IN IF DOMAIN after = {} THEN isolated
             ELSE [s \in DOMAIN isolated \cup {station_id} |->
                     IF s = station_id THEN after[station_id] ELSE isolated[s]]

\* the call returns its outputs, or its exception has reached the caller; the
\* caller starts the next run_stream call on the same orchestrator
NewStreamCall ==
  /\ Len(packets) > 0
  /\ packets' = <<>>
  /\ outputs' = <<>>
  /\ pc' = "loop"
  /\ call' = NoCall
  /\ result' = NoResult
  /\ isolated_out' = NoResult
  /\ UNCHANGED <<prev_records, lastOf, isolated>>

NextStream ==
  \/ \E packet \in StreamPackets : RunStreamStep(packet)
  \/ NewStreamCall

SpecStream == InitStream /\ [][NextStream]_vars

(***************************************************************************)
(* run_pipeline called directly, twice with the same arguments             *)
(***************************************************************************)
Wind(speed, direction) == [speed |-> speed, direction |-> direction]

Radar(snr) == [snr |-> snr]

RadarBias(snr, reflectivity_bias) ==
  [snr |-> snr, reflectivity_bias |-> reflectivity_bias]

SinglePackets ==
  {Typed("temperature", f) :
     f \in {EmptyDict, NullReading, Reading(200), Reading(285), Reading(286),
            Reading(305), Reading(700), Reading(-955)}}
  \cup {Typed("humidity", f) :
          f \in {NullReading, Reading(600), Reading(1005), Reading(1006),
                 Reading(-1)}}
  \cup {Typed("pressure", f) :
          f \in {EmptyDict, Reading(9000), Reading(9031), Reading(2000),
                 Reading(11001)}}
  \cup {Typed("precipitation", f) :
          f \in {NullReading, Reading(0), Reading(200), Reading(201),
                 Reading(-10)}}
  \cup {Typed("wind", f) :
          f \in {Wind(None, Some(30)), Wind(Some(20), None),
                 Wind(Some(20), Some(1800)), Wind(Some(-10), Some(4000)),
                 Wind(Some(0), Some(900)), Wind(Some(1001), Some(3600))}}
  \cup {Typed("radar", f) :
          f \in {EmptyDict, Radar(Some(80)), RadarBias(Some(120), Some(5)),
                 RadarBias(Some(85), Some(35)), RadarBias(Some(100), Some(-31)),
                 RadarBias(Some(80), None), RadarBias(None, Some(35))}}

UnsupportedPackets ==
  {EmptyDict, "type" :> None, Typed("", EmptyDict),
   Typed("sonar", Reading(10)), Typed("Limit Check", Reading(10)),
   Typed("wind_profiler", Reading(10))}

TempSubs ==
  {EmptyDict, "temperature" :> None, Field("temperature", EmptyDict),
   Field("temperature", NullReading), Field("temperature", Reading(200)),
   Field("temperature", Reading(700)), Field("temperature", Reading(-100))}

HumiditySubs == {EmptyDict, Field("humidity", Reading(200))}

PressureSubs == {EmptyDict, Field("pressure", Reading(9090))}

WindSubs == {EmptyDict, Field("wind", Wind(Some(-10), Some(4000)))}

PrecipSubs ==
  {EmptyDict, Field("precipitation", Reading(5)),
   Field("precipitation", Reading(50)), Field("precipitation", Reading(250))}

RadarSubs == {EmptyDict, Field("radar", RadarBias(Some(80), Some(35)))}

CompositePackets ==
  {Typed("composite", t @@ h @@ p @@ w @@ r @@ d) :
     t \in TempSubs, h \in HumiditySubs, p \in PressureSubs, w \in WindSubs,
     r \in PrecipSubs, d \in RadarSubs}

PipelinePackets == SinglePackets \cup UnsupportedPackets \cup CompositePackets

NeighborLists ==
  {None, Some(<<Reading(200), NullReading, Reading(210)>>),
   Some(<<NullReading, [id |-> Some("S9")]>>)}

Metadata == {"Clear sky", "Heavy Rain and THUNDER nearby"}

PrevRecords ==
  {None,
   Some([temperature |-> Some(Reading(200)),
         pressure |-> Some(Reading(9000))]),
   Some([temperature |-> Some(NullReading)])}

\* the Station Memory the caller took prev_record from
MemoryHolding(packet, prev_record) ==
  IF Truthy(prev_record) THEN StationOf(packet) :> Val(prev_record)
  ELSE EmptyDict

InitPipeline ==
  \E packet \in PipelinePackets, neighbor_data \in NeighborLists,
     metadata \in Metadata, prev_record \in PrevRecords :
    /\ call = [data_packet |-> packet, neighbor_data |-> neighbor_data,
               metadata |-> metadata, prev_record |-> prev_record]
    /\ prev_records = MemoryHolding(packet, prev_record)
    /\ packets = <<>>
    /\ outputs = <<>>
    /\ pc = "ready"
    /\ result = NoResult
    /\ lastOf = EmptyDict
    /\ isolated = EmptyDict
    /\ isolated_out = NoResult

\* orchestrator.run_pipeline(packet, neighbors, metadata, prev_record)
RunPipelineCall ==
  /\ pc \in {"ready", "once"}
  /\ pc' = IF pc = "ready" THEN "once" ELSE "twice"
  /\ result' = Apply(call)
  /\ outputs' = IF Returned(result') THEN Append(outputs, result') ELSE outputs
  /\ prev_records' = PipelineMemory(prev_records, call.data_packet)
  /\ UNCHANGED <<packets, call, lastOf, isolated, isolated_out>>

NextPipeline == RunPipelineCall

SpecPipeline == InitPipeline /\ [][NextPipeline]_vars

(***************************************************************************)
(* Properties                                                              *)
(***************************************************************************)
\* a run_pipeline call has returned a bundle
HasBundle == result # NoResult /\ Returned(result)

Verdict == result.monitor_output.qc_result

AllResults == result.monitor_output.all_results

StartsWith(prefix, s) ==
  Len(prefix) <= Len(s) /\ SubSeq(s, 1, Len(prefix)) = prefix

EndsWith(suffix, s) ==
  Len(suffix) <= Len(s)
    /\ SubSeq(s, Len(s) - Len(suffix) + 1, Len(s)) = suffix

\* the risk line of the ticket names this level
RiskIs(level) ==
  StartsWith("**MAINTENANCE TICKET**\nRisk: " \o level \o "\n", result.report)

StatusIs(status) == EndsWith("\nStatus: " \o status, result.report)

IsType(packet, type) == Get(packet, "type") = Some(type)

PassedIffClean(verdict) == verdict.passed = (Len(verdict.anomalies) = 0)

\* C1: every verdict MonitorAgent.run returns - the verdict of the packet and
\* every sub-verdict in all_results - has passed true exactly when its
\* anomaly list is empty.
C1_PassedIffNoAnomalies ==
  HasBundle =>
    /\ PassedIffClean(Verdict)
    /\ \A i \in 1..Len(AllResults) : PassedIffClean(AllResults[i].verdict)

\* a composite whose collapsed verdict failed while one sub-verdict passed
C1_Witness ==
  /\ HasBundle
  /\ IsType(call.data_packet, "composite")
  /\ ~Verdict.passed
  /\ Len(Verdict.anomalies) >= 2
  /\ \E i \in 1..Len(AllResults) : AllResults[i].verdict.passed
  /\ \E i \in 1..Len(AllResults) : ~AllResults[i].verdict.passed

\* this step is one loop iteration of run_stream
StreamStep == Len(packets') = Len(packets) + 1

\* the step check failure the verdict of packet q reports
HasStepFailure(verdict, q) ==
  \E i \in 1..Len(verdict.anomalies) :
     StartsWith((IF IsType(q, "composite") THEN "[temperature] " ELSE "")
                  \o "Step Check Failed", verdict.anomalies[i])

\* station s was last streamed a packet with temperature t, and q brings a
\* temperature more than 5.0 away from it
Jump(last, q) ==
  /\ StationOf(q) \in DOMAIN last
  /\ ~IsNone(last[StationOf(q)])
  /\ ~IsNone(TempCarried(q))
  /\ Abs(Val(TempCarried(q)) - Val(last[StationOf(q)])) > 50

\* C2: when run_stream consumes packet q of station S, the previous packet of
\* S (whatever was streamed for other stations in between) carried a
\* temperature, q carries one too and the two differ by more than 5.0, then
\* q's verdict failed and lists a 'Step Check Failed' anomaly, prefixed
\* '[temperature]' when q is a composite.
C2_StepCheckAcrossPackets ==
  [][(StreamStep /\ Jump(lastOf, packets'[Len(packets')])) =>
       /\ Returned(result')
       /\ ~result'.monitor_output.qc_result.passed
       /\ HasStepFailure(result'.monitor_output.qc_result,
                         packets'[Len(packets')])]_vars

\* the third packet of the stream, a composite, jumps from the first, of the
\* same station, a packet of another station lying between them
C2_Witness ==
  /\ Len(packets) = 3
  /\ StationOf(packets[1]) = StationOf(packets[3])
  /\ StationOf(packets[2]) # StationOf(packets[3])
  /\ ~IsNone(TempCarried(packets[2]))
  /\ IsType(packets[3], "composite")
  /\ Jump(StationOf(packets[1]) :> TempCarried(packets[1]), packets[3])
  /\ HasBundle
  /\ HasStepFailure(Verdict, packets[3])

\* the keys of the record a packet is cached under
CachedKeys(packet) == DOMAIN NewRecord(packet)

OtherKey(key) == IF key = "temperature" THEN "pressure" ELSE "temperature"

\* C3: when run_stream caches a packet that carries only one of temperature
\* and pressure, the other key already cached for that station is left as it
\* was.
C3_OtherKeySurvives ==
  [][StreamStep =>
       LET q == packets'[Len(packets')]
           station_id == StationOf(q)
       IN \A key \in {"temperature", "pressure"} :
            (/\ Returned(result')
             /\ CachedKeys(q) = {key}
             /\ station_id \in DOMAIN prev_records
             /\ OtherKey(key) \in DOMAIN prev_records[station_id])
            => /\ OtherKey(key) \in DOMAIN prev_records'[station_id]
               /\ prev_records'[station_id][OtherKey(key)]
                    = prev_records[station_id][OtherKey(key)]]_vars

\* C4: the bundle run_stream produces for a packet of station S is the one an
\* orchestrator produces that was streamed the packets of S alone.
C4_StationIsolation ==
  (Len(packets) > 0) => result = isolated_out

\* two stations are cached with different records, and the latest packet
\* was step-checked against its own station's record
C4_Witness ==
  /\ Len(packets) = 2
  /\ StationOf(packets[1]) # StationOf(packets[2])
  /\ Cardinality(DOMAIN prev_records) = 2
  /\ HasBundle
  /\ "step_change" \in DOMAIN Verdict.metrics
  /\ Jump(StationOf(packets[1]) :> TempCarried(packets[1])
            @@ StationOf(packets[2]) :> TempCarried(packets[1]), packets[2])
  /\ ~HasStepFailure(Verdict, packets[2])

CompositeOrder ==
  <<"temperature", "humidity", "pressure", "wind", "precipitation", "radar",
    "internal_consistency">>

\* the sub-verdicts named `name` in an all_results (none or one)
Named(all_results, name) ==
  SelectSeq(all_results, LAMBDA entry : entry.name = name)

\* the anomalies of the first n sources of CompositeOrder, each prefixed
\* with its source
RECURSIVE PrefixedUpTo(_, _)
PrefixedUpTo(all_results, n) ==
  IF n = 0 THEN <<>>
  ELSE LET name == CompositeOrder[n]
           entries == Named(all_results, name)
           own == IF Len(entries) = 0 THEN <<>> ELSE entries[1].verdict.anomalies
       IN PrefixedUpTo(all_results, n - 1)
            \o [i \in 1..Len(own) |-> "[" \o name \o "] " \o own[i]]

\* C6: the collapsed verdict of a composite packet passed exactly when every
\* sub-verdict passed, and its anomalies are the sub-verdicts' anomalies, each
\* prefixed with '[<name>] ' of its source, in the order temperature,
\* humidity, pressure, wind, precipitation, radar, internal_consistency.
C6_CompositeCollapse ==
  (HasBundle /\ IsType(call.data_packet, "composite")) =>
    /\ Verdict.passed
         = (\A i \in 1..Len(AllResults) : AllResults[i].verdict.passed)
    /\ \A i \in 1..Len(AllResults) :
         /\ \E n \in 1..Len(CompositeOrder) :
              AllResults[i].name = CompositeOrder[n]
         /\ Len(Named(AllResults, AllResults[i].name)) = 1
    /\ Verdict.anomalies = PrefixedUpTo(AllResults, Len(CompositeOrder))

\* the first sub-verdict passed, a later one failed, and the cross-variable
\* check contributed as well
C6_Witness ==
  /\ HasBundle
  /\ IsType(call.data_packet, "composite")
  /\ Len(AllResults) >= 3
  /\ AllResults[1].verdict.passed
  /\ ~AllResults[2].verdict.passed
  /\ AllResults[Len(AllResults)].name = "internal_consistency"
  /\ Len(Verdict.anomalies) >= 3

InRange(v, low, high) == low <= v /\ v <= high

\* a single-variable packet whose value lies outside the validity range of
\* its evaluator
FailsLimitCheck(packet) ==
  LET value == Get(packet, "value")
  IN /\ ~IsNone(value)
     /\ \/ IsType(packet, "temperature") /\ ~InRange(Val(value), -900, 650)
        \/ IsType(packet, "humidity") /\ ~InRange(Val(value), 0, 1005)
        \/ IsType(packet, "pressure") /\ ~InRange(Val(value), 3000, 11000)

\* C7: the ticket of a packet that fails a validity-range check has risk RED.
C7_LimitFailureIsRed ==
  (HasBundle /\ FailsLimitCheck(call.data_packet)) => RiskIs("RED")

\* C8: a passed verdict gets the fixed diagnosis, risk GREEN and status
\* CLOSE; a failed verdict never gets risk GREEN and gets status INVESTIGATE.
C8_PassedGreenFailedNot ==
  HasBundle =>
    IF Verdict.passed
    THEN /\ result.diagnosis = [conclusion |-> "No issue detected.",
                                confidence |-> "low",
                                rationale |-> "All QC checks passed."]
         /\ RiskIs("GREEN")
         /\ StatusIs("CLOSE")
    ELSE /\ ~RiskIs("GREEN")
         /\ \E level \in {"BLUE", "YELLOW", "RED"} : RiskIs(level)
         /\ StatusIs("INVESTIGATE")

\* a failed verdict whose diagnosis has medium confidence
C8_Witness ==
  /\ HasBundle
  /\ ~Verdict.passed
  /\ result.diagnosis.confidence = "medium"
  /\ RiskIs("BLUE")
  /\ StatusIs("INVESTIGATE")

\* a passed verdict with its closed GREEN ticket
C8_WitnessPassed ==
  /\ HasBundle
  /\ Verdict.passed
  /\ RiskIs("GREEN")

HasSpatialFailure(verdict) ==
  \E i \in 1..Len(verdict.anomalies) :
     Contains("Spatial Check Failed", verdict.anomalies[i])

MentionsStorm(metadata) ==
  \E keyword \in {"storm", "convective", "heavy rain", "thunder", "squall"} :
     Contains(keyword, Lower(metadata))

\* C9: a temperature packet whose verdict holds a spatial check failure is
\* diagnosed as sensor bias with high confidence and risk YELLOW when the
\* metadata names no storm keyword in any letter case, and as localized
\* weather with medium confidence and risk BLUE when it names one.
C9_SpatialDiagnosis ==
  (HasBundle /\ IsType(call.data_packet, "temperature")
     /\ HasSpatialFailure(Verdict)) =>
    IF MentionsStorm(call.metadata)
    THEN /\ result.diagnosis.conclusion
              = "Possible localized weather; monitor closely."
         /\ result.diagnosis.confidence = "medium"
         /\ RiskIs("BLUE")
    ELSE /\ result.diagnosis.conclusion
              = "Sensor warm bias or shielding issue."
         /\ result.diagnosis.confidence = "high"
         /\ RiskIs("YELLOW")

\* a spatial failure under metadata that spells a storm keyword in capitals,
\* after a range and a step failure of the same packet
C9_Witness ==
  /\ HasBundle
  /\ IsType(call.data_packet, "temperature")
  /\ HasSpatialFailure(Verdict)
  /\ Len(Verdict.anomalies) = 3
  /\ Contains("THUNDER", call.metadata)
  /\ RiskIs("BLUE")

\* the branches of the rule chain the anomalies take, in list order, the
\* anomalies that take none left out
MatchedRules(anomalies, metadata) ==
  SelectSeq([i \in 1..Len(anomalies) |-> MatchedRule(anomalies[i], metadata)],
            LAMBDA rule : rule # "none")

\* the diagnosis in which the last of these rules wins
LastWins(rules) ==
  IF Len(rules) = 0
  THEN [conclusion |-> "Unknown anomaly.", confidence |-> "medium",
        rationale |-> "No rule matched; manual review recommended."]
  ELSE [conclusion |-> RuleTable[rules[Len(rules)]].text,
        confidence |-> RuleTable[rules[Len(rules)]].confidence,
        rationale |-> Join(" ", [i \in 1..Len(rules) |->
                                   RuleTable[rules[i]].rationale])]

\* C10: on a failed verdict the conclusion and confidence are those of the
\* rule matched by the last matching anomaly, the rationale joins one
\* fragment per matching anomaly in list order, and without any match the
\* diagnosis is 'Unknown anomaly.', medium, 'No rule matched; manual review
\* recommended.'.
C10_LastMatchWins ==
  (HasBundle /\ ~Verdict.passed) =>
    result.diagnosis = LastWins(MatchedRules(Verdict.anomalies, call.metadata))

\* two anomalies match rules with different conclusions, an anomaly without
\* a match standing before them
C10_Witness ==
  /\ HasBundle
  /\ ~Verdict.passed
  /\ Len(Verdict.anomalies) >= 3
  /\ MatchedRule(Verdict.anomalies[1], call.metadata) = "none"
  /\ MatchedRule(Verdict.anomalies[2], call.metadata) = "pressure_jump"
  /\ MatchedRule(Verdict.anomalies[Len(Verdict.anomalies)], call.metadata)
       = "wind"

\* the record an evaluator was handed for the sub-verdict `name`: the packet
\* itself, or the sub-record of a composite
EvaluatorInput(packet, name) ==
  IF IsType(packet, "composite") THEN Val(packet[name]) ELSE packet

\* the evaluator's required value is absent or null
MissingRequired(name, data) ==
  CASE name = "wind" ->
         IsNone(Get(data, "speed")) \/ IsNone(Get(data, "direction"))
    [] name = "radar" -> IsNone(Get(data, "snr"))
    [] OTHER -> IsNone(Get(data, "value"))

MissingText(name) ==
  CASE name = "wind" -> "Missing wind speed or direction."
    [] name = "radar" -> "Missing radar SNR."
    [] OTHER -> "Missing " \o name \o " value."

\* the packet's type is absent, null or not one MonitorAgent.run dispatches
Unsupported(packet) ==
  LET type == Get(packet, "type")
  IN IsNone(type) \/ Val(type) \notin SingleTypes \cup {"composite"}

TypeNamed(packet) ==
  IF IsNone(Get(packet, "type")) THEN "None" ELSE Val(packet["type"])

\* C11: an evaluator whose required value is absent or null (value; wind
\* speed or direction; radar snr) returns passed=false, the one 'Missing ...'
\* anomaly and empty metrics, whatever the previous record, the neighbors and
\* the other fields are; a packet of an unrecognized or absent type gets a
\* bundle whose verdict is passed=false with the single anomaly naming the
\* type, and the memory update run_stream applies after it leaves Station
\* Memory as it was.
C11_MalformedInputIsData ==
  (pc # "ready") =>
    /\ HasBundle =>
         \A i \in 1..Len(AllResults) :
            (AllResults[i].name \in SingleTypes
               /\ ~Unsupported(call.data_packet)
               /\ MissingRequired(AllResults[i].name,
                                  EvaluatorInput(call.data_packet,
                                                 AllResults[i].name)))
            => AllResults[i].verdict
                 = [passed |-> FALSE,
                    anomalies |-> <<MissingText(AllResults[i].name)>>,
                    metrics |-> EmptyDict]
    /\ (\E type \in SingleTypes :
          IsType(call.data_packet, type)
            /\ MissingRequired(type, call.data_packet))
       => HasBundle /\ Len(AllResults) = 1
            /\ Verdict = AllResults[1].verdict
    /\ Unsupported(call.data_packet) =>
         /\ HasBundle
         /\ Verdict = [passed |-> FALSE,
                       anomalies |-> <<"Unsupported data type: "
                                         \o TypeNamed(call.data_packet)>>,
                       metrics |-> EmptyDict]
         /\ Len(AllResults) = 1
         /\ AllResults[1].verdict = Verdict
         /\ MemoryAfter(prev_records, call.data_packet, result) = prev_records

\* a radar packet without SNR whose reflectivity bias is out of tolerance,
\* evaluated with neighbors and a previous record at hand
C11_Witness ==
  /\ HasBundle
  /\ IsType(call.data_packet, "radar")
  /\ IsNone(Get(call.data_packet, "snr"))
  /\ ~IsNone(Get(call.data_packet, "reflectivity_bias"))
  /\ Truthy(call.prev_record)
  /\ Truthy(call.neighbor_data)
  /\ Verdict.anomalies = <<"Missing radar SNR.">>

\* a packet of an unrecognized type streamed to a station whose record is
\* cached
C11_WitnessUnsupported ==
  /\ HasBundle
  /\ Unsupported(call.data_packet)
  /\ DOMAIN prev_records # {}
  /\ ~Verdict.passed

\* in run_stream, a packet of an unrecognized or absent type yields an
\* output, leaves Station Memory as it was and the loop goes on
UnsupportedSkippedInStream ==
  [][(StreamStep /\ Unsupported(packets'[Len(packets')])) =>
       /\ prev_records' = prev_records
       /\ Len(outputs') = Len(outputs) + 1
       /\ pc' = "loop"]_vars

\* C12: every run_pipeline call returns a result bundle, whatever fields and
\* sub-records of the packet are absent or null.
C12_NeverRaises ==
  (pc # "ready") => HasBundle

\* one step of the fold of run_pipeline over a stream: the output for packet
\* q computed from Station Memory `memory`
FoldOutput(memory, q) ==
  LET station_id == StationOf(q)
      prev_record == IF station_id \in DOMAIN memory THEN memory[station_id]
                     ELSE EmptyDict
  IN run_pipeline(q, neighbor_lookup(q), metadata_lookup(q), Some(prev_record))

\* and the memory with q cached after it
FoldMemory(memory, q) == _update_prev_records(memory, StationOf(q), q)

\* C13: a run_stream call starts with no outputs and, while no packet has
\* raised, every loop iteration is one step of the fold of run_pipeline over
\* the packets: it appends the output computed for the packet from the
\* Station Memory the packets before it left, then caches the packet, so the
\* outputs are one per packet in input order and no packet is step-checked
\* against itself.
C13_StreamIsFold ==
  [][/\ (Len(packets') = 0) => (outputs' = <<>>)
     /\ (StreamStep /\ pc' = "loop") =>
          /\ outputs' = Append(outputs,
                               FoldOutput(prev_records,
                                          packets'[Len(packets')]))
          /\ prev_records' = FoldMemory(prev_records,
                                        packets'[Len(packets')])
          /\ Len(outputs') = Len(packets')
          /\ SubSeq(packets', 1, Len(packets)) = packets]_vars

\* three packets of one station, the second and third each jumping from the
\* one before it
C13_Witness ==
  /\ pc = "loop"
  /\ Len(packets) = 3
  /\ Len(outputs) = 3
  /\ \A i \in 1..3 : StationOf(packets[i]) = StationOf(packets[1])
  /\ Jump(StationOf(packets[1]) :> TempCarried(packets[1]), packets[2])
  /\ Jump(StationOf(packets[2]) :> TempCarried(packets[2]), packets[3])
  /\ \A i \in 2..3 :
       HasStepFailure(outputs[i].monitor_output.qc_result, packets[i])

\* the neighbor list the call was given
GivenNeighbors ==
  IF IsNone(call.neighbor_data) THEN <<>> ELSE Val(call.neighbor_data)

\* the positions of the neighbors that report a value
Usable ==
  {i \in 1..Len(GivenNeighbors) : ~IsNone(Get(GivenNeighbors[i], "value"))}

RECURSIVE TotalOver(_)
TotalOver(positions) ==
  IF positions = {} THEN 0
  ELSE LET i == CHOOSE j \in positions : TRUE
       IN Val(GivenNeighbors[i]["value"]) + TotalOver(positions \ {i})

ReportsSpatialFailure(verdict) ==
  \E i \in 1..Len(verdict.anomalies) :
     StartsWith("Spatial Check Failed", verdict.anomalies[i])

\* what C14 says of the temperature verdict for the value val: n usable
\* neighbors whose values add up to total
SpatialAsSpecified(verdict, val, n, total) ==
  IF n > 0
  THEN /\ "spatial_deviation" \in DOMAIN verdict.metrics
       /\ verdict.metrics["spatial_deviation"].den > 0
       /\ verdict.metrics["spatial_deviation"].num * n
            = Abs(val * n - total) * verdict.metrics["spatial_deviation"].den
       /\ ReportsSpatialFailure(verdict) = (Abs(val * n - total) > 80 * n)
       /\ ReportsSpatialFailure(verdict) => ~verdict.passed
  ELSE /\ "spatial_deviation" \notin DOMAIN verdict.metrics
       /\ ~ReportsSpatialFailure(verdict)

\* C14: for a temperature observation with a value, the spatial check uses
\* only the neighbors with a non-null value: with at least one of them
\* metrics['spatial_deviation'] is |value - mean of those values|, recorded
\* whether or not the check fails, and the check fails exactly when that
\* deviation is greater than 8.0; with none there is no metric and no spatial
\* anomaly.
C14_SpatialDeviation ==
  HasBundle =>
    \A i \in 1..Len(AllResults) :
       (AllResults[i].name = "temperature"
          /\ ~Unsupported(call.data_packet)
          /\ ~MissingRequired("temperature",
                              EvaluatorInput(call.data_packet, "temperature")))
       => SpatialAsSpecified(
            AllResults[i].verdict,
            Val(EvaluatorInput(call.data_packet, "temperature")["value"]),
            Cardinality(Usable), TotalOver(Usable))

\* a deviation of exactly 8.0 from the mean of the two neighbors that report
\* a value, a third neighbor reporting none: recorded, and not a failure
C14_Witness ==
  /\ HasBundle
  /\ IsType(call.data_packet, "temperature")
  /\ Cardinality(Usable) = 2
  /\ Len(GivenNeighbors) = 3
  /\ Get(call.data_packet, "value") = Some(285)
  /\ Verdict.metrics["spatial_deviation"] = [num |-> 160, den |-> 2]
  /\ ~ReportsSpatialFailure(Verdict)

\* a deviation just above 8.0 fails
C14_WitnessFails ==
  /\ HasBundle
  /\ Get(call.data_packet, "value") = Some(286)
  /\ IsType(call.data_packet, "temperature")
  /\ Cardinality(Usable) = 2
  /\ ReportsSpatialFailure(Verdict)

\* no neighbor reports a value: the check is skipped
C14_WitnessSkipped ==
  /\ HasBundle
  /\ IsType(call.data_packet, "temperature")
  /\ Len(GivenNeighbors) = 2
  /\ Usable = {}
  /\ Verdict.passed

\* the value a composite packet carries in a sub-record, None when the
\* sub-record or the field is absent or null
Carried(packet, key, field) ==
  IF key \in DOMAIN packet /\ ~IsNone(packet[key])
  THEN Get(Val(packet[key]), field)
  ELSE None

\* rule 1: precipitation > 0.5 and humidity < 30
Rule1Fires(packet) ==
  LET precip == Carried(packet, "precipitation", "value")
      humidity == Carried(packet, "humidity", "value")
  IN ~IsNone(precip) /\ ~IsNone(humidity)
       /\ Val(precip) > 5 /\ Val(humidity) < 300

\* rule 2: precipitation > 0 and temperature < -5
Rule2Fires(packet) ==
  LET precip == Carried(packet, "precipitation", "value")
      temp == Carried(packet, "temperature", "value")
  IN ~IsNone(precip) /\ ~IsNone(temp) /\ Val(precip) > 0 /\ Val(temp) < -50

\* the sub-verdicts of the per-variable evaluators
EvaluatorResults ==
  SelectSeq(AllResults, LAMBDA entry : entry.name # "internal_consistency")

\* C15: on a composite packet each of the two cross-variable rules fires
\* exactly when its own condition holds (rule 1: precipitation > 0.5 and
\* humidity < 30; rule 2: precipitation > 0 and temperature < -5), a rule
\* with an absent field does not fire, all_results has an
\* 'internal_consistency' sub-verdict exactly when a rule fires, that
\* sub-verdict holds one anomaly per fired rule in rule order, and the
\* collapsed verdict then fails.
C15_ConsistencyRules ==
  (HasBundle /\ IsType(call.data_packet, "composite")) =>
    LET entries == Named(AllResults, "internal_consistency")
        fired == (IF Rule1Fires(call.data_packet) THEN <<"Physics Mismatch: ">>
                  ELSE <<>>)
                   \o (IF Rule2Fires(call.data_packet)
                       THEN <<"Physics Warning: ">> ELSE <<>>)
    IN IF Len(fired) = 0 THEN Len(entries) = 0
       ELSE /\ Len(entries) = 1
            /\ ~entries[1].verdict.passed
            /\ entries[1].verdict.metrics = EmptyDict
            /\ Len(entries[1].verdict.anomalies) = Len(fired)
            /\ \A i \in 1..Len(fired) :
                 StartsWith(fired[i], entries[1].verdict.anomalies[i])
            /\ ~Verdict.passed

\* both rules fire on a packet whose per-variable evaluators all passed
C15_Witness ==
  /\ HasBundle
  /\ IsType(call.data_packet, "composite")
  /\ Rule1Fires(call.data_packet)
  /\ Rule2Fires(call.data_packet)
  /\ Len(EvaluatorResults) = 3
  /\ \A i \in 1..Len(EvaluatorResults) : EvaluatorResults[i].verdict.passed
  /\ ~Verdict.passed
  /\ Len(Verdict.anomalies) = 2

\* rule 2 fires alone, at a precipitation of 0.5 that rule 1 lets pass
C15_WitnessRule2Alone ==
  /\ HasBundle
  /\ IsType(call.data_packet, "composite")
  /\ ~Rule1Fires(call.data_packet)
  /\ Rule2Fires(call.data_packet)
  /\ ~IsNone(Carried(call.data_packet, "humidity", "value"))
  /\ Len(Verdict.anomalies) = 1

\* precipitation without humidity and temperature: both rules are skipped
C15_WitnessSkipped ==
  /\ HasBundle
  /\ IsType(call.data_packet, "composite")
  /\ ~IsNone(Carried(call.data_packet, "precipitation", "value"))
  /\ IsNone(Carried(call.data_packet, "humidity", "value"))
  /\ IsNone(Carried(call.data_packet, "temperature", "value"))
  /\ Verdict.passed

\* the anomalies the cross-variable evaluator contributed to the collapsed
\* verdict
ConsistencyAnomalies ==
  SelectSeq(Verdict.anomalies,
            LAMBDA anomaly : StartsWith("[internal_consistency] ", anomaly))

CrossCheckTask ==
  "- Cross-check heating, shielding, and colocated instruments."

\* C16: every anomaly the cross-variable consistency evaluator contributes
\* to a composite verdict takes the internal-consistency/physics-mismatch
\* branch of the Diagnostician, and the ticket lists the cross-check task
\* for colocated instruments.
C16_ConsistencyHandledDownstream ==
  (HasBundle /\ IsType(call.data_packet, "composite")) =>
    \A i \in 1..Len(ConsistencyAnomalies) :
       /\ MatchedRule(ConsistencyAnomalies[i], call.metadata) = "consistency"
       /\ Contains(CrossCheckTask, result.report)

\* C17: while a run_stream call goes on, Station Memory holds an entry for
\* the station of every packet the call has consumed, of any type.
C17_EntryOnFirstSighting ==
  (pc = "loop") =>
    \A i \in 1..Len(packets) : StationOf(packets[i]) \in DOMAIN prev_records

\* the value cached for `key` in the Previous Record the call was given
PrevValue(key) ==
  LET record == IF IsNone(call.prev_record) THEN EmptyDict
                ELSE Val(call.prev_record)
      cached == Get(record, key)
  IN IF Truthy(cached) THEN Get(Val(cached), "value") ELSE None

\* the value differs from the cached one by more than `limit`
StepExceeds(val, key, limit) ==
  ~IsNone(PrevValue(key)) /\ Abs(val - Val(PrevValue(key))) > limit

When(failing, text) == IF failing THEN <<text>> ELSE <<>>

\* the failing checks of an evaluator on the record `data`, in the fixed
\* check order, each named by the words its anomaly begins with
FailingChecks(name, data) ==
  CASE name = "temperature" ->
         LET val == Val(data["value"])
         IN When(val < -900 \/ val > 650, "Physical Limit Failed: ")
              \o When(StepExceeds(val, "temperature", 50),
                      "Step Check Failed: Sudden jump of ")
              \o When(Cardinality(Usable) > 0
                        /\ Abs(val * Cardinality(Usable) - TotalOver(Usable))
                             > 80 * Cardinality(Usable),
                      "Spatial Check Failed: ")
    [] name = "pressure" ->
         LET val == Val(data["value"])
         IN When(val < 3000 \/ val > 11000, "Physical Limit Failed: Pressure ")
              \o When(StepExceeds(val, "pressure", 30),
                      "Step Check Failed: Pressure jump ")
    [] name = "wind" ->
         When(Val(data["speed"]) < 0 \/ Val(data["speed"]) > 1000,
              "Physical Limit Failed: ")
           \o When(Val(data["direction"]) < 0 \/ Val(data["direction"]) > 3600,
                   "Physical Limit Failed: Invalid direction ")
    [] name = "radar" ->
         When(Val(data["snr"]) < 100, "Low SNR Detected: ")
           \o When(~IsNone(Get(data, "reflectivity_bias"))
                     /\ Abs(Val(data["reflectivity_bias"])) > 30,
                   "Reflectivity bias high: ")

\* C18: when the required values are present, the temperature, pressure,
\* wind and radar evaluators run every check: the verdict holds one anomaly
\* per failing check, in the order range, step, spatial (temperature), range,
\* step (pressure), speed, direction (wind), SNR, reflectivity bias (radar),
\* and passed is false exactly when some check fails; an SNR below 10 yields
\* 'Low SNR' and a bias beyond 3 is reported in addition to it.
C18_ChecksAccumulate ==
  (HasBundle /\ ~Unsupported(call.data_packet)) =>
    \A i \in 1..Len(AllResults) :
       (AllResults[i].name \in {"temperature", "pressure", "wind", "radar"}
          /\ ~MissingRequired(AllResults[i].name,
                              EvaluatorInput(call.data_packet,
                                             AllResults[i].name)))
       => LET failing == FailingChecks(AllResults[i].name,
                                       EvaluatorInput(call.data_packet,
                                                      AllResults[i].name))
              verdict == AllResults[i].verdict
          IN /\ Len(verdict.anomalies) = Len(failing)
             /\ \A k \in 1..Len(failing) :
                  StartsWith(failing[k], verdict.anomalies[k])
             /\ verdict.passed = (Len(failing) = 0)

\* a temperature that fails the range, the step and the spatial check
C18_Witness ==
  /\ HasBundle
  /\ IsType(call.data_packet, "temperature")
  /\ Len(Verdict.anomalies) = 3
  /\ StartsWith("Physical Limit Failed", Verdict.anomalies[1])
  /\ StartsWith("Step Check Failed", Verdict.anomalies[2])
  /\ StartsWith("Spatial Check Failed", Verdict.anomalies[3])

\* a radar log with a low SNR and a reflectivity bias out of tolerance
C18_WitnessRadar ==
  /\ HasBundle
  /\ IsType(call.data_packet, "radar")
  /\ Len(Verdict.anomalies) = 2
  /\ StartsWith("Low SNR", Verdict.anomalies[1])
  /\ StartsWith("Reflectivity bias high", Verdict.anomalies[2])

\* C19: after every step of every run_stream call on one orchestrator, each
\* Previous Record in Station Memory is non-empty and has keys only among
\* temperature and pressure, and no station id has left Station Memory.
C19_RecordsWellFormed ==
  [][/\ \A s \in DOMAIN prev_records' :
          /\ DOMAIN prev_records'[s] # {}
          /\ DOMAIN prev_records'[s] \subseteq {"temperature", "pressure"}
     /\ DOMAIN prev_records \subseteq DOMAIN prev_records']_vars

\* two stations are cached, one with both keys, and the latest packet, of a
\* station that is cached, brought nothing to cache
C19_Witness ==
  /\ Cardinality(DOMAIN prev_records) = 2
  /\ \E s \in DOMAIN prev_records :
        DOMAIN prev_records[s] = {"temperature", "pressure"}
  /\ pc = "loop"
  /\ Len(packets) > 0
  /\ StationOf(packets[Len(packets)]) \in DOMAIN prev_records
  /\ CachedKeys(packets[Len(packets)]) = {}

\* the position of the packet of the same station that came last before
\* position i in the running call: 0 when there is none
PreviousOfStation(i) ==
  LET earlier == {j \in 1..(i - 1) :
                    StationOf(packets[j]) = StationOf(packets[i])}
  IN IF earlier = {} THEN 0
     ELSE CHOOSE j \in earlier : \A k \in earlier : k <= j

\* the pressure a packet carries: its value when it is a pressure packet,
\* its pressure sub-record's value when it is a composite
PressureCarried(packet) ==
  IF IsType(packet, "pressure") THEN Get(packet, "value")
  ELSE IF IsType(packet, "composite") /\ Truthy(Get(packet, "pressure"))
  THEN Get(Val(packet["pressure"]), "value")
  ELSE None

\* packet q brings a pressure more than 3.0 away from the one p carried
PressureJump(p, q) ==
  /\ ~IsNone(PressureCarried(p))
  /\ ~IsNone(PressureCarried(q))
  /\ Abs(Val(PressureCarried(q)) - Val(PressureCarried(p))) > 30

HasPressureStepFailure(verdict, q) ==
  \E i \in 1..Len(verdict.anomalies) :
     StartsWith((IF IsType(q, "composite") THEN "[pressure] " ELSE "")
                  \o "Step Check Failed: Pressure jump", verdict.anomalies[i])

\* C20: a packet whose verdict failed is cached like any other: when the
\* previous packet of the station failed QC and carried a temperature (a
\* pressure), and the next packet of the station carries one more than 5.0
\* (3.0) away from it, that packet fails with 'Step Check Failed'; so for
\* temperatures a, b, a with |a - b| > 5.0 the second and the third packet
\* both report it.
C20_FailedPacketIsBaseline ==
  (pc = "loop") =>
    \A i \in 2..Len(packets) :
       LET j == PreviousOfStation(i)
           verdict == outputs[i].monitor_output.qc_result
       IN (j > 0 /\ ~outputs[j].monitor_output.qc_result.passed) =>
            /\ Jump(StationOf(packets[j]) :> TempCarried(packets[j]),
                    packets[i])
               => ~verdict.passed /\ HasStepFailure(verdict, packets[i])
            /\ PressureJump(packets[j], packets[i])
               => ~verdict.passed
                    /\ HasPressureStepFailure(verdict, packets[i])

\* temperatures a, b, a of one station in consecutive temperature packets:
\* the second and the third both report the step failure
C20_Witness ==
  /\ pc = "loop"
  /\ Len(packets) = 3
  /\ \A i \in 1..3 : IsType(packets[i], "temperature")
                       /\ StationOf(packets[i]) = StationOf(packets[1])
  /\ TempCarried(packets[1]) = TempCarried(packets[3])
  /\ Jump(StationOf(packets[1]) :> TempCarried(packets[1]), packets[2])
  /\ outputs[1].monitor_output.qc_result.passed
  /\ \A i \in 2..3 :
       HasStepFailure(outputs[i].monitor_output.qc_result, packets[i])

\* a composite that failed on both step checks is the baseline of the next
\* composite, which fails on both as well
C20_WitnessComposite ==
  /\ pc = "loop"
  /\ Len(packets) = 3
  /\ \A i \in 2..3 :
       /\ IsType(packets[i], "composite")
       /\ PreviousOfStation(i) = i - 1
       /\ PressureJump(packets[i - 1], packets[i])
       /\ HasPressureStepFailure(outputs[i].monitor_output.qc_result,
                                 packets[i])
       /\ HasStepFailure(outputs[i].monitor_output.qc_result, packets[i])

\* a composite packet none of whose six sub-records is there to evaluate:
\* each is absent or empty
Bare(packet) ==
  /\ IsType(packet, "composite")
  /\ \A name \in SingleTypes :
        name \in DOMAIN packet => packet[name] = Some(EmptyDict)

\* C21: when run_stream consumes a composite packet that carries none of the
\* six sub-records, or only empty ones, no evaluator runs and the packet is
\* reported as healthy: all_results is empty, the collapsed verdict passed
\* without anomalies, the summary starts with HEALTHY, the ticket risk is
\* GREEN, and Station Memory - the station's Previous Record in it - is left
\* as it was.
C21_BareCompositeIsHealthy ==
  [][(StreamStep /\ Bare(packets'[Len(packets')])) =>
       /\ Returned(result')
       /\ Len(result'.monitor_output.all_results) = 0
       /\ result'.monitor_output.qc_result.passed
       /\ Len(result'.monitor_output.qc_result.anomalies) = 0
       /\ StartsWith("HEALTHY", result'.monitor_output.summary)
       /\ StartsWith("**MAINTENANCE TICKET**\nRisk: GREEN\n", result'.report)
       /\ prev_records' = prev_records]_vars

\* a composite with empty temperature and pressure sub-records, streamed to
\* a station whose temperature and pressure are cached
C21_Witness ==
  /\ Len(packets) >= 2
  /\ Bare(packets[Len(packets)])
  /\ "temperature" \in DOMAIN packets[Len(packets)]
  /\ StationOf(packets[Len(packets)]) \in DOMAIN prev_records
  /\ DOMAIN prev_records[StationOf(packets[Len(packets)])]
       = {"temperature", "pressure"}
  /\ HasBundle
  /\ Verdict.passed
  /\ RiskIs("GREEN")

====
